---- MODULE Spec2Model ----
(***************************************************************************)
(* FAMM detection pipeline: the tile scanner (run_inference.py) and the    *)
(* validator / history store (validate_rosemary_geojson.py).               *)
(*                                                                         *)
(* Representation.                                                         *)
(*  - A Python str is a tuple of one-character strings.                    *)
(*  - A JSON value of a properties object is a record [ty, n, s]:          *)
(*      ty = "absent"  the key is not in the object                        *)
(*      ty = "null"    JSON null (Python None)                             *)
(*      ty = "int"     JSON integer n                                      *)
(*      ty = "num"     JSON real, n is the value in units of 10^-5         *)
(*      ty = "str"     JSON string s                                       *)
(*  - A float is an integer count of 10^-5 (Scale), so that 0.8 is 80000   *)
(*    and 0.80004 is 80004.  Decimal literals with at most five places     *)
(*    map to distinct doubles in the same order, so > and >= on the        *)
(*    doubles are > and >= on these integers.                              *)
(***************************************************************************)
EXTENDS Integers, Sequences, FiniteSets, TLC

\* ------------------------------------------------------------------ bounds
MaxBatch == 2
MaxRuns == 2
MaxDay == 2
MaxTifs == 2

\* ------------------------------------------------------------ fixed point
Scale == 100000

\* ----------------------------------------------------------------- strings
LowerChars == <<"a", "b", "c", "d", "e", "f", "g", "h", "i", "j", "k", "l", "m", "n", "o", "p", "q", "r", "s", "t", "u", "v", "w", "x", "y", "z">>

UpperChars == <<"A", "B", "C", "D", "E", "F", "G", "H", "I", "J", "K", "L", "M", "N", "O", "P", "Q", "R", "S", "T", "U", "V", "W", "X", "Y", "Z">>

DigitChars == <<"0", "1", "2", "3", "4", "5", "6", "7", "8", "9">>

\* index of c in the tuple t, 0 when c does not occur
IndexOf(c, t) ==
  IF \E k \in 1..Len(t) : t[k] = c
    THEN CHOOSE k \in 1..Len(t) : t[k] = c
    ELSE 0

\* str.upper() / str.lower() on one character
UpperChar(c) ==
  IF IndexOf(c, LowerChars) > 0 THEN UpperChars[IndexOf(c, LowerChars)] ELSE c

LowerChar(c) ==
  IF IndexOf(c, UpperChars) > 0 THEN LowerChars[IndexOf(c, UpperChars)] ELSE c

PyLower(s) == [k \in 1..Len(s) |-> LowerChar(s[k])]

IsDigit(c) == IndexOf(c, DigitChars) > 0

DigitVal(c) == IndexOf(c, DigitChars) - 1

IsSpace(c) == c = " "

\* str.strip(): drop leading and trailing whitespace
RECURSIVE LStrip(_)
LStrip(s) ==
  IF s # <<>> /\ IsSpace(Head(s)) THEN LStrip(Tail(s)) ELSE s

RECURSIVE RStrip(_)
RStrip(s) ==
  IF s # <<>> /\ IsSpace(s[Len(s)]) THEN RStrip(SubSeq(s, 1, Len(s) - 1)) ELSE s

PyStrip(s) == RStrip(LStrip(s))

\* sub in s
PyContains(sub, s) ==
  \E k \in 0..(Len(s) - Len(sub)) : SubSeq(s, k + 1, k + Len(sub)) = sub

\* s.split(d) for a one-character delimiter: empty parts are kept
RECURSIVE PySplit(_, _)
PySplit(s, d) ==
  IF IndexOf(d, s) = 0
    THEN <<s>>
    ELSE <<SubSeq(s, 1, IndexOf(d, s) - 1)>>
           \o PySplit(SubSeq(s, IndexOf(d, s) + 1, Len(s)), d)

\* d.join(parts)
RECURSIVE PyJoin(_, _)
PyJoin(parts, d) ==
  IF parts = <<>> THEN <<>>
  ELSE IF Len(parts) = 1 THEN parts[1]
  ELSE parts[1] \o <<d>> \o PyJoin(Tail(parts), d)

\* decimal digits of a natural number
RECURSIVE NatToStr(_)
NatToStr(n) ==
  IF n < 10 THEN <<DigitChars[n + 1]>>
  ELSE NatToStr(n \div 10) \o <<DigitChars[(n % 10) + 1]>>

\* -------------------------------------------------------------- JSON values
JAbsent == [ty |-> "absent", n |-> 0, s |-> <<>>]

JNull == [ty |-> "null", n |-> 0, s |-> <<>>]

JInt(k) == [ty |-> "int", n |-> k, s |-> <<>>]

JNum(k) == [ty |-> "num", n |-> k, s |-> <<>>]

JStr(t) == [ty |-> "str", n |-> 0, s |-> t]

S_None == <<"N", "o", "n", "e">>

\* str(v) for the value kinds the text fields take in this model
PyStr(v) ==
  CASE v.ty = "str" -> v.s
    [] v.ty = "null" -> S_None
    [] v.ty = "int" /\ v.n >= 0 -> NatToStr(v.n)
    [] v.ty = "int" /\ v.n < 0 -> <<"-">> \o NatToStr(0 - v.n)

\* value of the digit string t read as a natural number
RECURSIVE DigitsVal(_)
DigitsVal(t) ==
  IF t = <<>> THEN 0 ELSE 10 * DigitsVal(SubSeq(t, 1, Len(t) - 1)) + DigitVal(t[Len(t)])

AllDigits(t) == \A k \in 1..Len(t) : IsDigit(t[k])

\* 10^k
RECURSIVE Pow10(_)
Pow10(k) == IF k = 0 THEN 1 ELSE 10 * Pow10(k - 1)

\* float(str) for plain decimal numerals "[+-]ddd[.ddd]" with at most five
\* decimals, surrounding whitespace allowed; [ok, v]
ParseFloat(t) ==
  LET u == PyStrip(t)
      neg == u # <<>> /\ Head(u) = "-"
      body == IF u # <<>> /\ Head(u) \in {"-", "+"} THEN Tail(u) ELSE u
      parts == PySplit(body, ".")
      ip == parts[1]
      fp == IF Len(parts) = 2 THEN parts[2] ELSE <<>>
      wellFormed == /\ Len(parts) <= 2
                    /\ AllDigits(ip) /\ AllDigits(fp)
                    /\ Len(ip) + Len(fp) > 0
                    /\ Len(fp) <= 5
      mag == DigitsVal(ip) * Scale + DigitsVal(fp) * Pow10(5 - Len(fp))
  IN IF wellFormed
       THEN [ok |-> TRUE, v |-> IF neg THEN 0 - mag ELSE mag]
       ELSE [ok |-> FALSE, v |-> 0]

\* float(v): [ok, v]; ok = FALSE is a ValueError or TypeError
PyFloat(v) ==
  CASE v.ty = "num" -> [ok |-> TRUE, v |-> v.n]
    [] v.ty = "int" -> [ok |-> TRUE, v |-> v.n * Scale]
    [] v.ty = "str" -> ParseFloat(v.s)
    [] OTHER -> [ok |-> FALSE, v |-> 0]

\* round(x, ndigits) where unit = 10^(5 - ndigits); x is not an exact tie
\* (a tie is decided by the binary expansion of the double, which the
\* fixed-point value does not carry)
PyRound(x, unit) ==
  CASE (x % unit) * 2 # unit -> ((x + (unit \div 2)) \div unit) * unit

\* ------------------------------------------------------- validator tables
S_HIGH == <<"H", "I", "G", "H">>

S_MEDIUM == <<"M", "E", "D", "I", "U", "M">>

S_LOW == <<"L", "O", "W">>

S_Empty == <<>>

S_Unknown == <<"U", "n", "k", "n", "o", "w", "n">>

S_Region == <<"R", "e", "g", "i", "o", "n">>

S_SpRegion == <<" ", "R", "e", "g", "i", "o", "n">>

S_UnknownRegion == <<"U", "n", "k", "n", "o", "w", "n", " ", "R", "e", "g", "i", "o", "n">>

S_AshantiRegion == <<"A", "s", "h", "a", "n", "t", "i", " ", "R", "e", "g", "i", "o", "n">>

S_WesternRegion == <<"W", "e", "s", "t", "e", "r", "n", " ", "R", "e", "g", "i", "o", "n">>

S_CentralRegion == <<"C", "e", "n", "t", "r", "a", "l", " ", "R", "e", "g", "i", "o", "n">>

S_EasternRegion == <<"E", "a", "s", "t", "e", "r", "n", " ", "R", "e", "g", "i", "o", "n">>

\* thresholds of remap_alert_level, in units of 10^-5
HighCut == 80000

MediumCut == 50000

REQUIRED_FIELDS ==
  <<"confidence", "district", "region", "date", "area_ha", "tile_id", "alert_level">>

DISTRICT_TO_REGION ==
  <<
     <<<<"K", "w", "a", "b", "r", "e">>, S_AshantiRegion>>,
     <<<<"O", "b", "u", "a", "s", "i">>, S_AshantiRegion>>,
     <<<<"A", "m", "a", "n", "s", "i", "e">>, S_AshantiRegion>>,
     <<<<"A", "d", "a", "n", "s", "i">>, S_AshantiRegion>>,
     <<<<"B", "e", "k", "w", "a", "i">>, S_AshantiRegion>>,
     <<<<"T", "a", "r", "k", "w", "a">>, S_WesternRegion>>,
     <<<<"P", "r", "e", "s", "t", "e", "a">>, S_WesternRegion>>,
     <<<<"W", "a", "s", "s", "a">>, S_WesternRegion>>,
     <<<<"B", "i", "b", "i", "a", "n", "i">>, S_WesternRegion>>,
     <<<<"M", "f", "a", "n", "t", "s", "e", "m", "a", "n">>, S_CentralRegion>>,
     <<<<"K", "o", "m", "e", "n", "d", "a">>, S_CentralRegion>>,
     <<<<"C", "a", "p", "e", " ", "C", "o", "a", "s", "t">>, S_CentralRegion>>,
     <<<<"A", "b", "u", "r", "a">>, S_CentralRegion>>,
     <<<<"A", "t", "i", "w", "a">>, S_EasternRegion>>,
     <<<<"B", "i", "r", "i", "m">>, S_EasternRegion>>,
     <<<<"D", "e", "n", "k", "y", "e", "m", "b", "o", "u", "r">>, S_EasternRegion>>,
     <<<<"W", "e", "s", "t", " ", "A", "k", "i", "m">>, S_EasternRegion>>,
     <<<<"E", "a", "s", "t", " ", "A", "k", "i", "m">>, S_EasternRegion>>
  >>

\* ---------------------------------------------------- validator functions
\* mutant: the cut points taken inclusively
remap_alert_level_inclusive(confidence) ==
  IF confidence >= HighCut THEN S_HIGH
  ELSE IF confidence >= MediumCut THEN S_MEDIUM
  ELSE S_LOW

remap_alert_level(confidence) ==
  IF confidence > HighCut THEN S_HIGH
  ELSE IF confidence > MediumCut THEN S_MEDIUM
  ELSE S_LOW

\* cap() of title_case_district: upper-case the first character only
cap(part) ==
  IF part # <<>> THEN <<UpperChar(part[1])>> \o Tail(part) ELSE part

title_case_word(word) ==
  LET ps == PySplit(word, "-")
  IN PyJoin([k \in 1..Len(ps) |-> cap(ps[k])], "-")

title_case_district(name) ==
  LET ws == PySplit(name, " ")
  IN PyJoin([k \in 1..Len(ws) |-> title_case_word(ws[k])], " ")

\* mutant: the last matching entry of the table wins
fallback_region_last_match(district) ==
  LET hits == {k \in 1..Len(DISTRICT_TO_REGION) :
                 PyContains(PyLower(DISTRICT_TO_REGION[k][1]), PyLower(district))}
  IN IF hits = {}
       THEN [found |-> FALSE, region |-> S_Empty]
       ELSE [found |-> TRUE,
             region |-> DISTRICT_TO_REGION[CHOOSE k \in hits : \A j \in hits : k >= j][2]]

\* [found, region]: found = FALSE is the None result
fallback_region(district) ==
  LET hits == {k \in 1..Len(DISTRICT_TO_REGION) :
                 PyContains(PyLower(DISTRICT_TO_REGION[k][1]), PyLower(district))}
  IN IF hits = {}
       THEN [found |-> FALSE, region |-> S_Empty]
       ELSE [found |-> TRUE,
             region |-> DISTRICT_TO_REGION[CHOOSE k \in hits : \A j \in hits : k <= j][2]]

IsLeap(y) == (y % 4 = 0 /\ y % 100 # 0) \/ y % 400 = 0

DaysInMonth(y, m) ==
  IF m = 2 THEN (IF IsLeap(y) THEN 29 ELSE 28)
  ELSE IF m \in {4, 6, 9, 11} THEN 30
  ELSE 31

\* the month directive of strptime: 1[0-2] | 0[1-9] | [1-9]
MonthField(p) ==
  \/ Len(p) = 2 /\ p[1] = "1" /\ p[2] \in {"0", "1", "2"}
  \/ Len(p) = 2 /\ p[1] = "0" /\ IsDigit(p[2]) /\ p[2] # "0"
  \/ Len(p) = 1 /\ IsDigit(p[1]) /\ p[1] # "0"

\* the day directive of strptime: 3[01] | [12]\d | 0[1-9] | [1-9] | " "[1-9]
DayField(p) ==
  \/ Len(p) = 2 /\ p[1] = "3" /\ p[2] \in {"0", "1"}
  \/ Len(p) = 2 /\ p[1] \in {"1", "2"} /\ IsDigit(p[2])
  \/ Len(p) = 2 /\ p[1] \in {"0", " "} /\ IsDigit(p[2]) /\ p[2] # "0"
  \/ Len(p) = 1 /\ IsDigit(p[1]) /\ p[1] # "0"

\* datetime.strptime(s, "%Y-%m-%d") succeeds
validate_date(s) ==
  /\ Len(s) >= 8
  /\ AllDigits(SubSeq(s, 1, 4))
  /\ s[5] = "-"
  /\ LET parts == PySplit(SubSeq(s, 6, Len(s)), "-")
     IN /\ Len(parts) = 2
        /\ MonthField(parts[1])
        /\ DayField(parts[2])
        /\ LET y == DigitsVal(SubSeq(s, 1, 4))
               m == DigitsVal(parts[1])
               d == DigitsVal(LStrip(parts[2]))
           IN y >= 1 /\ d <= DaysInMonth(y, m)

\* ------------------------------------------------------------- features
\* A feature is [props, geom].  props is [ty, f]: ty = "absent" when the
\* feature has no "properties" key, "null" when it is null, "obj" when it
\* is an object with the members f.  geom is [ty, coords] likewise, coords
\* being the "coordinates" list (fixed-point numbers).
NoFields ==
  [confidence |-> JAbsent, district |-> JAbsent, region |-> JAbsent,
   date |-> JAbsent, area_ha |-> JAbsent, tile_id |-> JAbsent,
   alert_level |-> JAbsent]

PropsAbsent == [ty |-> "absent", f |-> NoFields]

PropsNull == [ty |-> "null", f |-> NoFields]

PropsObj(fields) == [ty |-> "obj", f |-> fields]

GeomAbsent == [ty |-> "absent", coords |-> <<>>]

GeomNull == [ty |-> "null", coords |-> <<>>]

GeomPoint(lon, lat) == [ty |-> "obj", coords |-> <<lon, lat>>]

NoFeature == [props |-> PropsAbsent, geom |-> GeomAbsent]

NoReason == [kind |-> "none", fields |-> <<>>, date |-> <<>>]

\* the rejection reasons of clean_feature
MissingFields(fields) == [kind |-> "missing", fields |-> fields, date |-> <<>>]

InvalidCoordinates == [kind |-> "coords", fields |-> <<>>, date |-> <<>>]

BadDate(d) == [kind |-> "date", fields |-> <<>>, date |-> d]

\* dict.get(key, default) on a properties object
PropGet(fields, key, default) ==
  IF fields[key].ty = "absent" THEN default ELSE fields[key]

\* lines 124-129 of clean_feature: suffix, then fallback
normalize_region(region, district_fixed) ==
  LET r1 == IF /\ region # S_Empty
               /\ ~PyContains(S_Region, region)
               /\ region \notin {S_Unknown, S_Empty}
             THEN region \o S_SpRegion
             ELSE region
      fb == fallback_region(district_fixed)
  IN IF r1 = S_Empty \/ r1 \in {S_Unknown, S_UnknownRegion, S_Empty}
       THEN (IF fb.found THEN fb.region ELSE S_UnknownRegion)
       ELSE r1

\* mutant: an upstream alert_level that names a level is kept
clean_feature_trusting_upstream(feature) ==
  LET props == feature.props
      geom == feature.geom
      missing == SelectSeq(REQUIRED_FIELDS, LAMBDA k : props.f[k].ty = "absent")
      conf == PyFloat(props.f["confidence"])
      area == PyFloat(props.f["area_ha"])
      district == PyStrip(PyStr(props.f["district"]))
      region == PyStrip(PyStr(props.f["region"]))
      date_str == PyStrip(PyStr(props.f["date"]))
      tile_id == PyStr(PropGet(props.f, "tile_id", JStr(S_Empty)))
      district_fixed == title_case_district(district)
      upstream == props.f["alert_level"]
      raised == [status |-> "raise", feat |-> NoFeature, reason |-> NoReason]
  IN IF props.ty = "null" THEN raised
     ELSE IF missing # <<>>
       THEN [status |-> "reject", feat |-> NoFeature, reason |-> MissingFields(missing)]
     ELSE IF geom.ty = "null" THEN raised
     ELSE IF Len(geom.coords) < 2
       THEN [status |-> "reject", feat |-> NoFeature, reason |-> InvalidCoordinates]
     ELSE IF ~conf.ok \/ ~area.ok THEN raised
     ELSE IF ~validate_date(date_str)
       THEN [status |-> "reject", feat |-> NoFeature, reason |-> BadDate(date_str)]
     ELSE [status |-> "ok",
           feat |-> [geom |-> geom,
                     props |-> PropsObj(
                       [confidence |-> JNum(PyRound(conf.v, 10)),
                        district |-> JStr(district_fixed),
                        region |-> JStr(normalize_region(region, district_fixed)),
                        date |-> JStr(date_str),
                        area_ha |-> JNum(PyRound(area.v, 1000)),
                        tile_id |-> JStr(tile_id),
                        alert_level |->
                          IF upstream \in {JStr(S_HIGH), JStr(S_MEDIUM), JStr(S_LOW)}
                            THEN upstream
                            ELSE JStr(remap_alert_level(conf.v))])],
           reason |-> NoReason]

\* [status, feat, reason]: status "ok" is (cleaned, None), "reject" is
\* (None, reason), "raise" is an exception leaving clean_feature
clean_feature(feature) ==
  LET props == feature.props
      geom == feature.geom
      missing == SelectSeq(REQUIRED_FIELDS, LAMBDA k : props.f[k].ty = "absent")
      conf == PyFloat(props.f["confidence"])
      area == PyFloat(props.f["area_ha"])
      district == PyStrip(PyStr(props.f["district"]))
      region == PyStrip(PyStr(props.f["region"]))
      date_str == PyStrip(PyStr(props.f["date"]))
      tile_id == PyStr(PropGet(props.f, "tile_id", JStr(S_Empty)))
      district_fixed == title_case_district(district)
      raised == [status |-> "raise", feat |-> NoFeature, reason |-> NoReason]
  IN IF props.ty = "null" THEN raised
     ELSE IF missing # <<>>
       THEN [status |-> "reject", feat |-> NoFeature, reason |-> MissingFields(missing)]
     ELSE IF geom.ty = "null" THEN raised
     ELSE IF Len(geom.coords) < 2
       THEN [status |-> "reject", feat |-> NoFeature, reason |-> InvalidCoordinates]
     ELSE IF ~conf.ok \/ ~area.ok THEN raised
     ELSE IF ~validate_date(date_str)
       THEN [status |-> "reject", feat |-> NoFeature, reason |-> BadDate(date_str)]
     ELSE [status |-> "ok",
           feat |-> [geom |-> geom,
                     props |-> PropsObj(
                       [confidence |-> JNum(PyRound(conf.v, 10)),
                        district |-> JStr(district_fixed),
                        region |-> JStr(normalize_region(region, district_fixed)),
                        date |-> JStr(date_str),
                        area_ha |-> JNum(PyRound(area.v, 1000)),
                        tile_id |-> JStr(tile_id),
                        alert_level |-> JStr(remap_alert_level(conf.v))])],
           reason |-> NoReason]

\* mutant: the tile is read under a key the stored features do not have
StoredKey_wrong_field(ft) ==
  <<JStr(S_Empty), PropGet(ft.props.f, "date", JStr(S_Empty))>>

\* the dedup key of a stored feature as load_existing reads it
StoredKey(ft) ==
  <<PropGet(ft.props.f, "tile_id", JStr(S_Empty)),
    PropGet(ft.props.f, "date", JStr(S_Empty))>>

\* the dedup key validate_and_clean computes for a cleaned feature
CleanKey(result) == <<result.props.f["tile_id"], result.props.f["date"]>>

\* ----------------------------------------------------------------- files
\* A GeoJSON file on disk is [kind, feats]:
\*   "absent"  no such file          "badjson" not parsable as JSON
\*   "notobj"  valid JSON whose top level is not an object
\*   "obj"     an object; feats is its "features" list (empty if missing)
FileAbsent == [kind |-> "absent", feats |-> <<>>]

FileBadJson == [kind |-> "badjson", feats |-> <<>>]

FileNotObj == [kind |-> "notobj", feats |-> <<>>]

FileObj(feats) == [kind |-> "obj", feats |-> feats]

\* --------------------------------------------------------------- scanner
MODEL_SIZE == 224

STRIDE == 224

\* THRESHOLD = 0.3
THRESHOLD == 30000

\* area_ha = (MODEL_SIZE * 10 * MODEL_SIZE * 10) / 10000.0, in units of 10^-5
AREA_HA == (MODEL_SIZE * 10 * MODEL_SIZE * 10) * (Scale \div 10000)

\* list(range(0, stop, step))
PyRange(stop, step) ==
  IF stop <= 0 THEN <<>>
  ELSE [k \in 1..(((stop - 1) \div step) + 1) |-> (k - 1) * step]

\* datetime.now().strftime("%Y-%m-%d") on day number d of January 2025
DateOfDay(d) ==
  <<"2", "0", "2", "5", "-", "0", "1", "-">>
    \o (IF d < 10 THEN <<"0">> \o NatToStr(d) ELSE NatToStr(d))

\* transform * (x, y) for the affine transform t = [a, b, c, d, e, f]
Affine(t, x, y) == <<t.a * x + t.b * y + t.c, t.d * x + t.e * y + t.f>>

\* A raster is [name, readable, H, W, transform, win]; win maps the
\* top-left corner <<i, j>> of a window to what the two black boxes return
\* there: p, the classifier's probability (fails = TRUE when the classifier
\* raises), and district / region, the result of get_location_details at
\* the window's centre.

\* line 124: the scanner's own mapping of a confidence to an alert level
inline_alert(confidence) ==
  IF confidence > 80000 THEN S_HIGH
  ELSE IF confidence > 50000 THEN S_MEDIUM
  ELSE S_LOW

\* the feature process_shard appends for the window at (i, j), lines 124-143
shard_feature(raster, i, j, day) ==
  LET w == raster.win[<<i, j>>]
      alert == inline_alert(w.p)
      pt == Affine(raster.transform, j + (MODEL_SIZE \div 2), i + (MODEL_SIZE \div 2))
  IN [geom |-> GeomPoint(pt[1], pt[2]),
      props |-> PropsObj(
        [confidence |-> JNum(PyRound(w.p, 10)),
         district |-> JStr(w.district),
         region |-> JStr(w.region),
         date |-> JStr(DateOfDay(day)),
         area_ha |-> JNum(PyRound(AREA_HA, 1000)),
         tile_id |-> JStr(raster.name),
         alert_level |-> JStr(alert)])]

\* mutant: the ranges stop one pixel early, so a window that ends exactly
\* at the raster's edge is dropped
shard_windows_short(raster) ==
  LET rows == PyRange(raster.H - MODEL_SIZE, STRIDE)
      cols == PyRange(raster.W - MODEL_SIZE, STRIDE)
  IN [k \in 1..(Len(rows) * Len(cols)) |->
        <<rows[((k - 1) \div Len(cols)) + 1], cols[((k - 1) % Len(cols)) + 1]>>]

\* the window corners in scan order: rows outer, columns inner
shard_windows(raster) ==
  LET rows == PyRange(raster.H - MODEL_SIZE + 1, STRIDE)
      cols == PyRange(raster.W - MODEL_SIZE + 1, STRIDE)
  IN [k \in 1..(Len(rows) * Len(cols)) |->
        <<rows[((k - 1) \div Len(cols)) + 1], cols[((k - 1) % Len(cols)) + 1]>>]

\* mutant: the boundary is excluded
qualifies_strict(prob) == prob > THRESHOLD

\* line 122: if prob >= THRESHOLD
qualifies(prob) == prob >= THRESHOLD

\* the loops of lines 108-143; clock[k] is the day datetime.now() falls on
\* when window k is classified
RECURSIVE shard_loop(_, _, _, _, _)
shard_loop(raster, wins, k, clock, acc) ==
  IF k > Len(wins) \/ acc.raised THEN acc
  ELSE LET i == wins[k][1]
           j == wins[k][2]
           w == raster.win[<<i, j>>]
       IN IF w.fails THEN [acc EXCEPT !.raised = TRUE]
          ELSE IF qualifies(w.p)
            THEN shard_loop(raster, wins, k + 1, clock,
                   [acc EXCEPT !.features = Append(@, shard_feature(raster, i, j, clock[k]))])
            ELSE shard_loop(raster, wins, k + 1, clock, acc)

\* process_shard(model, tif_path) with the clock read once per emitted
\* feature (line 138): [raised, features]
process_shard_at(raster, clock) ==
  IF ~raster.readable
    THEN [raised |-> FALSE, features |-> <<>>]
    ELSE shard_loop(raster, shard_windows(raster), 1, clock,
                    [raised |-> FALSE, features |-> <<>>])

\* the clock of a scan that starts and ends on day `day`
SameDay(raster, day) == [k \in 1..Len(shard_windows(raster)) |-> day]

\* mutant: the exception of an unreadable raster is not caught
process_shard_unreadable_raises(raster, day) ==
  IF ~raster.readable
    THEN [raised |-> TRUE, features |-> <<>>]
    ELSE shard_loop(raster, shard_windows(raster), 1, SameDay(raster, day),
                    [raised |-> FALSE, features |-> <<>>])

\* process_shard(model, tif_path) run within day `day`: [raised, features]
process_shard(raster, day) ==
  IF ~raster.readable
    THEN [raised |-> FALSE, features |-> <<>>]
    ELSE shard_loop(raster, shard_windows(raster), 1, SameDay(raster, day),
                    [raised |-> FALSE, features |-> <<>>])

\* ----------------------------------------------------------- sample data
S_tileA == <<"t", "i", "l", "e", "A", ".", "t", "i", "f">>

S_tileB == <<"t", "i", "l", "e", "B", ".", "t", "i", "f">>

S_tileC == <<"t", "i", "l", "e", "C", ".", "t", "i", "f">>

S_tarkwa == <<"t", "a", "r", "k", "w", "a", "-", "n", "s", "u", "a", "e", "m">>

S_ObuasiMunicipal == <<"O", "b", "u", "a", "s", "i", " ", "M", "u", "n", "i", "c", "i", "p", "a", "l">>

S_Western == <<"W", "e", "s", "t", "e", "r", "n">>

S_Ashanti == <<"A", "s", "h", "a", "n", "t", "i">>

S_Jan01 == <<"2", "0", "2", "5", "-", "0", "1", "-", "0", "1">>

S_Jan01Padded == <<" ", "2", "0", "2", "5", "-", "0", "1", "-", "0", "1", " ">>

S_Jan02 == <<"2", "0", "2", "5", "-", "0", "1", "-", "0", "2">>

S_Half == <<"0", ".", "5">>

S_abc == <<"a", "b", "c">>

\* a raw feature with all seven fields and a point geometry
RawFeature(conf, district, region, date, tile, alert) ==
  [geom |-> GeomPoint(-200000, 600000),
   props |-> PropsObj(
     [confidence |-> conf, district |-> JStr(district), region |-> JStr(region),
      date |-> JStr(date), area_ha |-> JNum(50176000), tile_id |-> tile,
      alert_level |-> JStr(alert)])]

\* 0.81 on tileA, upstream alert stale
fHigh == RawFeature(JNum(81000), S_tarkwa, S_Western, S_Jan01, JStr(S_tileA), S_LOW)

\* 0.80004 on the same tile and day, date padded with blanks, region empty
fEdge == RawFeature(JNum(80004), S_ObuasiMunicipal, S_Empty, S_Jan01Padded, JStr(S_tileA), S_MEDIUM)

\* confidence given as the string "0.5", tile_id as the integer 5
fOther == RawFeature(JStr(S_Half), S_Unknown, S_Unknown, S_Jan02, JInt(5), S_HIGH)

\* area_ha missing
fNoArea == [fHigh EXCEPT !.props.f.area_ha = JAbsent]

\* confidence is not a number
fBadConf == [fHigh EXCEPT !.props.f.confidence = JStr(S_abc)]

RawFeatures == {fHigh, fEdge, fOther, fNoArea, fBadConf}

\* all sequences over S of length at most n
SeqsUpTo(S, n) == UNION {[1..k -> S] : k \in 0..n}

\* the contents an input file can have
RawFiles ==
  {FileAbsent, FileBadJson, FileNotObj}
    \cup {FileObj(b) : b \in SeqsUpTo(RawFeatures, MaxBatch)}

\* stored features of a history file that the validator did not write
sStale ==
  [geom |-> GeomPoint(-200000, 600000),
   props |-> PropsObj(
     [confidence |-> JNum(20000), district |-> JStr(S_tarkwa),
      region |-> JStr(S_Western), date |-> JStr(S_Jan01),
      area_ha |-> JNum(50176000), tile_id |-> JStr(S_tileA),
      alert_level |-> JStr(S_HIGH)])]

sTwin == [sStale EXCEPT !.props.f.confidence = JNum(90000)]

sNoProps == [geom |-> GeomPoint(-200000, 600000), props |-> PropsAbsent]

sNullProps == [geom |-> GeomPoint(-200000, 600000), props |-> PropsNull]

sBare == [geom |-> GeomPoint(-200000, 600000), props |-> PropsObj(NoFields)]

\* the contents the history file can have before the first run
InitialHistories ==
  {FileAbsent, FileBadJson, FileNotObj, FileObj(<<>>),
   FileObj(<<sStale>>), FileObj(<<sStale, sTwin>>),
   FileObj(<<sStale, sNoProps>>), FileObj(<<sNullProps>>), FileObj(<<sBare>>)}

NorthUp == [a |-> 9, b |-> 0, c |-> -200000, d |-> 0, e |-> -9, f |-> 600000]

Window(p, district, region) ==
  [p |-> p, fails |-> FALSE, district |-> district, region |-> region]

\* 230 x 230: one window
rasterA ==
  [name |-> S_tileA, readable |-> TRUE, H |-> 230, W |-> 230, transform |-> NorthUp,
   win |-> (<<0, 0>> :> Window(90000, S_ObuasiMunicipal, S_Ashanti))]

\* 224 x 448: two windows, both above THRESHOLD
rasterB ==
  [name |-> S_tileB, readable |-> TRUE, H |-> 224, W |-> 448, transform |-> NorthUp,
   win |-> (<<0, 0>> :> Window(85012, S_Unknown, S_Unknown)
            @@ <<0, 224>> :> Window(40000, S_tarkwa, S_Western))]

\* cannot be opened
rasterC ==
  [name |-> S_tileC, readable |-> FALSE, H |-> 0, W |-> 0, transform |-> NorthUp,
   win |-> (<<0, 0>> :> Window(0, S_Unknown, S_Unknown))]

Rasters == {rasterA, rasterB, rasterC}

S_tileD == <<"t", "i", "l", "e", "D", ".", "t", "i", "f">>

\* 224 x 448: the classifier raises on the second window
rasterD ==
  [name |-> S_tileD, readable |-> TRUE, H |-> 224, W |-> 448, transform |-> NorthUp,
   win |-> (<<0, 0>> :> Window(90000, S_tarkwa, S_Western)
            @@ <<0, 224>> :> [Window(0, S_Unknown, S_Unknown) EXCEPT !.fails = TRUE])]

AllRasters == Rasters \cup {rasterD}

\* batches of the one-window raster and the raster the classifier fails on
FlushBatches ==
  {b \in SeqsUpTo({rasterA, rasterD}, MaxTifs) :
     \A j, k \in 1..Len(b) : j # k => b[j] # b[k]}

\* the .tif files of one run, in glob order: distinct files
TifBatches ==
  {b \in SeqsUpTo(Rasters, MaxTifs) : \A j, k \in 1..Len(b) : j # k => b[j] # b[k]}

BatchNames(b) == [k \in 1..Len(b) |-> b[k].name]

\* the confidences remap_alert_level is tried on: a grid and both cut points
ConfStep == 2000

ConfDomain ==
  {k * ConfStep : k \in 0..(Scale \div ConfStep)}
    \cup {MediumCut - 1, MediumCut, MediumCut + 1, 51000,
          HighCut - 1, HighCut, HighCut + 1, 81000, -1000, 120000}

\* process_shard tabulated over the sample rasters and the days of the model
Shards == [r \in AllRasters, d \in 1..MaxDay |-> process_shard(r, d)]

\* the loop of __main__ over tif_files, lines 166-169
RECURSIVE inference_loop(_, _, _, _)
inference_loop(tifs, k, day, acc) ==
  IF k > Len(tifs) \/ acc.raised THEN acc
  ELSE LET r == Shards[tifs[k], day]
       IN inference_loop(tifs, k + 1, day,
            [raised |-> r.raised, features |-> acc.features \o r.features])

\* __main__ of run_inference.py on day `day`: [written, features, raw], raw
\* being the output file after the run.  With no .tif file the script exits
\* before writing, and when the classifier raises it never reaches the write.
run_inference(tifs, day, raw) ==
  LET r == inference_loop(tifs, 1, day, [raised |-> FALSE, features |-> <<>>])
      written == tifs # <<>> /\ ~r.raised
  IN [written |-> written,
      features |-> r.features,
      raw |-> IF written THEN FileObj(r.features) ELSE raw]

\* --------------------------------------------------------- history store
\* every feature process_shard can emit for the sample rasters
ScanFeatures ==
  UNION {{shard_feature(r, shard_windows(r)[k][1], shard_windows(r)[k][2], d) :
            k \in 1..Len(shard_windows(r)), d \in 1..MaxDay} : r \in Rasters}

\* clean_feature tabulated over the features an input file can hold, so
\* that the loop below looks its result up instead of recomputing it
Cleaned == [f \in RawFeatures \cup ScanFeatures |-> clean_feature(f)]

\* [status, feats, keys]: "ok" is a normal return, "warn" the caught
\* (JSONDecodeError, KeyError) branch, "raise" an exception that escapes
load_existing(file) ==
  LET bad == {k \in 1..Len(file.feats) : file.feats[k].props.ty # "obj"}
      first == CHOOSE k \in bad : \A j \in bad : k <= j
      fresh == [status |-> "warn", feats |-> <<>>, keys |-> {}]
      raised == [status |-> "raise", feats |-> <<>>, keys |-> {}]
  IN CASE file.kind = "absent" -> [status |-> "ok", feats |-> <<>>, keys |-> {}]
       [] file.kind = "badjson" -> fresh
       [] file.kind = "notobj" -> raised
       [] file.kind = "obj" /\ bad = {} ->
            [status |-> "ok", feats |-> file.feats,
             keys |-> {StoredKey(file.feats[k]) : k \in 1..Len(file.feats)}]
       [] file.kind = "obj" /\ bad # {} ->
            IF file.feats[first].props.ty = "absent" THEN fresh ELSE raised

\* mutant: the key of an appended record is not added to the seen set
clean_step_key_not_recorded(acc, i, r) ==
  CASE r.status = "raise" ->
         [acc EXCEPT !.raised = TRUE]
    [] r.status = "reject" ->
         [acc EXCEPT !.skipped = Append(@, <<i - 1, r.reason>>)]
    [] r.status = "ok" /\ CleanKey(r.feat) \in acc.keys ->
         [acc EXCEPT !.dupes = @ + 1]
    [] r.status = "ok" /\ CleanKey(r.feat) \notin acc.keys ->
         [acc EXCEPT !.cleaned = Append(@, r.feat)]

\* mutant: a duplicate is dropped without being counted
clean_step_dupe_not_counted(acc, i, r) ==
  CASE r.status = "raise" ->
         [acc EXCEPT !.raised = TRUE]
    [] r.status = "reject" ->
         [acc EXCEPT !.skipped = Append(@, <<i - 1, r.reason>>)]
    [] r.status = "ok" /\ CleanKey(r.feat) \in acc.keys ->
         acc
    [] r.status = "ok" /\ CleanKey(r.feat) \notin acc.keys ->
         [acc EXCEPT !.cleaned = Append(@, r.feat),
                     !.keys = @ \cup {CleanKey(r.feat)}]

\* one pass of the loop body, lines 183-196, for the feature at index i
\* (1-based here, enumerate() counts from 0) with r = clean_feature(feat, i);
\* acc is [cleaned, skipped, dupes, keys, raised]
clean_step(acc, i, r) ==
  CASE r.status = "raise" ->
         [acc EXCEPT !.raised = TRUE]
    [] r.status = "reject" ->
         [acc EXCEPT !.skipped = Append(@, <<i - 1, r.reason>>)]
    [] r.status = "ok" /\ CleanKey(r.feat) \in acc.keys ->
         [acc EXCEPT !.dupes = @ + 1]
    [] r.status = "ok" /\ CleanKey(r.feat) \notin acc.keys ->
         [acc EXCEPT !.cleaned = Append(@, r.feat),
                     !.keys = @ \cup {CleanKey(r.feat)}]

\* the loop of validate_and_clean over raw[i..], line 182; an exception
\* leaving clean_feature ends it
RECURSIVE clean_loop(_, _, _)
clean_loop(raw, i, acc) ==
  IF i > Len(raw) \/ acc.raised THEN acc
  ELSE clean_loop(raw, i + 1, clean_step(acc, i, Cleaned[raw[i]]))

\* mutant: the existing history is loaded in overwrite mode too
existing_history_always_loaded(output, overwrite) ==
  load_existing(output)

\* lines 170-175: the history the run starts from
existing_history(output, overwrite) ==
  IF overwrite
    THEN [status |-> "skipped", feats |-> <<>>, keys |-> {}]
    ELSE load_existing(output)

\* mutant: the existing records are left out of what is saved
all_features_cleaned_only(existing_features, cleaned) == cleaned

\* mutant: the new records are put in front of the existing ones
all_features_prepended(existing_features, cleaned) == cleaned \o existing_features

\* line 199
all_features(existing_features, cleaned) == existing_features \o cleaned

\* Python's ordering of two dictionary keys fails between a str and a
\* number, and between None and anything
Unorderable(a, b) ==
  LET cls(v) == IF v.ty \in {"int", "num"} THEN "number" ELSE v.ty
  IN a # b /\ (cls(a) # cls(b) \/ a.ty = "null")

\* the summary block, lines 206-232, raises: a stored feature without one
\* of the three fields it indexes, or region / date keys that sorted() and
\* max() cannot order
summary_raises(feats) ==
  LET n == Len(feats)
      p(k) == feats[k].props.f
  IN \/ \E k \in 1..n : \E fld \in {"alert_level", "region", "date"} :
          p(k)[fld].ty = "absent"
     \/ \E j, k \in 1..n : Unorderable(p(j)["region"], p(k)["region"])
     \/ \E j, k \in 1..n : Unorderable(p(j)["date"], p(k)["date"])

NoRun ==
  [mode |-> "none", status |-> "none", at |-> "none", load |-> "none",
   added |-> 0, dupes |-> 0, skipped |-> <<>>, written |-> FALSE]

\* validate_and_clean from the point where the existing history ex has
\* been loaded: the loop, the write of output and the summary.  [run, out],
\* run.status: "ok" returned True, "false" returned False, "raised" an
\* exception escaped (run.at names the step); out is the output file after
validate_with_history(input, output, overwrite, ex) ==
  LET mode == IF overwrite THEN "overwrite" ELSE "append"
      base == [NoRun EXCEPT !.mode = mode]
      acc == clean_loop(input.feats, 1,
               [cleaned |-> <<>>, skipped |-> <<>>, dupes |-> 0,
                keys |-> ex.keys, raised |-> FALSE])
      all == all_features(ex.feats, acc.cleaned)
      done == [base EXCEPT !.load = ex.status, !.added = Len(acc.cleaned),
                           !.dupes = acc.dupes, !.skipped = acc.skipped,
                           !.written = TRUE]
  IN CASE input.kind \in {"absent", "badjson"} ->
            [run |-> [base EXCEPT !.status = "false", !.at = "input"],
             out |-> output]
       [] input.kind = "notobj" ->
            [run |-> [base EXCEPT !.status = "raised", !.at = "input"],
             out |-> output]
       [] input.kind = "obj" /\ ex.status = "raise" ->
            [run |-> [base EXCEPT !.status = "raised", !.at = "load_existing",
                                  !.load = "raise"],
             out |-> output]
       [] input.kind = "obj" /\ ex.status # "raise" /\ acc.raised ->
            [run |-> [base EXCEPT !.status = "raised", !.at = "clean_feature",
                                  !.load = ex.status],
             out |-> output]
       [] input.kind = "obj" /\ ex.status # "raise" /\ ~acc.raised ->
            [run |-> IF summary_raises(all)
                       THEN [done EXCEPT !.status = "raised", !.at = "summary"]
                       ELSE [done EXCEPT !.status = "ok"],
             out |-> FileObj(all)]

\* validate_and_clean(input_file, output_file, overwrite), start to end
validate_and_clean(input, output, overwrite) ==
  validate_with_history(input, output, overwrite, existing_history(output, overwrite))

\* ---------------------------------------------------------- state machine
VARIABLES
  rawFile,      \* asm_monitoring_results.geojson, the validator's input
  historyFile,  \* data/geojson/latest_detections.geojson, the history
  today,        \* the day datetime.now() falls on
  lastRun,      \* what the last validate_and_clean run did
  runs,         \* number of validator runs so far
  rawSame,      \* rawFile still holds what the last validator run read
  rawBatch,     \* names of the .tif files rawFile was scanned from, or <<>>
  lastBatch,    \* rawBatch at the last validator run
  rerun,        \* how the last run's input relates to the run before it
  emitted,      \* <<tile_id, date>> of every detection process_shard produced
  scan,         \* the last run of run_inference.py: its files, day and outcome
  proc,         \* the validator invocations running side by side
  arg,          \* argument of the pure function under test
  res           \* its result, <<>> before the call

vars ==
  <<rawFile, historyFile, today, lastRun, runs, rawSame, rawBatch, lastBatch,
    rerun, emitted, scan, proc, arg, res>>

NoRerun == [same |-> FALSE, batch |-> FALSE]

\* no scan has run yet
NoScan == [tifs |-> <<>>, day |-> 0, written |-> FALSE]

\* an invocation of the validator that has not started
\* (pc: "idle", "loaded" once the input and the existing history are read,
\* "done"; overlapped: the other invocation had loaded and not yet finished
\* when this one loaded; order: 1 for the first to finish, 2 for the second;
\* result: what validate_and_clean did, [run, out])
Idle ==
  [pc |-> "idle", input |-> FileAbsent,
   ex |-> [status |-> "none", feats |-> <<>>, keys |-> {}],
   overlapped |-> FALSE, order |-> 0,
   result |-> [run |-> NoRun, out |-> FileAbsent]]

NoProcs == [p \in {1, 2} |-> Idle]

InitCommon ==
  /\ today = 1
  /\ lastRun = NoRun
  /\ runs = 0
  /\ rawSame = FALSE
  /\ rawBatch = <<>>
  /\ lastBatch = <<>>
  /\ rerun = NoRerun
  /\ emitted = {}
  /\ scan = NoScan
  /\ proc = NoProcs
  /\ arg = 0
  /\ res = <<>>

\* the validator on its own: any history file, any input file
Init ==
  /\ InitCommon
  /\ rawFile = FileAbsent
  /\ historyFile \in InitialHistories

\* something outside the pipeline puts a file at the validator's input path;
\* a file the validator never read is not replaced (writing twice in a row
\* is the same as writing the second file)
WriteRaw(file) ==
  /\ runs = 0 => rawFile = FileAbsent
  /\ runs > 0 => rawSame
  /\ rawFile' = file
  /\ rawSame' = (rawSame /\ file = rawFile)
  /\ rawBatch' = <<>>
  /\ UNCHANGED <<historyFile, today, lastRun, runs, lastBatch, rerun, emitted, scan, proc, arg, res>>

\* python validate_rosemary_geojson.py [--overwrite]
Validate(overwrite) ==
  /\ runs < MaxRuns
  /\ LET r == validate_and_clean(rawFile, historyFile, overwrite)
     IN /\ historyFile' = r.out
        /\ lastRun' = r.run
  /\ runs' = runs + 1
  /\ rerun' = [same |-> rawSame /\ lastRun.written /\ lastRun.mode = "append",
               batch |-> /\ rawBatch # <<>> /\ rawBatch = lastBatch
                         /\ lastRun.written /\ lastRun.mode = "append"]
  /\ rawSame' = TRUE
  /\ lastBatch' = rawBatch
  /\ UNCHANGED <<rawFile, today, rawBatch, emitted, scan, proc, arg, res>>

Next ==
  \/ \E file \in RawFiles : WriteRaw(file)
  \/ \E overwrite \in BOOLEAN : Validate(overwrite)

Spec == Init /\ [][Next]_vars

\* the scheduled pipeline: scan the .tif files, then validate
InitPipeline ==
  /\ InitCommon
  /\ rawFile = FileAbsent
  /\ historyFile \in {FileAbsent, FileObj(<<sStale>>)}

\* midnight passes
Tick ==
  /\ today < MaxDay
  /\ today' = today + 1
  /\ UNCHANGED <<rawFile, historyFile, lastRun, runs, rawSame, rawBatch, lastBatch,
                 rerun, emitted, scan, proc, arg, res>>

\* python run_inference.py with the files tifs in data/tif_input; the
\* scheduled workflow runs the validator after each scan
RunInference(tifs) ==
  /\ runs = 0 => rawFile = FileAbsent
  /\ runs > 0 => rawSame
  /\ LET r == run_inference(tifs, today, rawFile)
     IN /\ rawFile' = r.raw
        /\ rawSame' = (rawSame /\ r.raw = rawFile)
        /\ rawBatch' = IF r.written THEN BatchNames(tifs) ELSE rawBatch
        /\ emitted' = emitted \cup {CleanKey(r.features[k]) : k \in 1..Len(r.features)}
        /\ scan' = [tifs |-> BatchNames(tifs), day |-> today, written |-> r.written]
  /\ UNCHANGED <<historyFile, today, lastRun, runs, lastBatch, rerun, proc, arg, res>>

NextPipeline ==
  \/ Tick
  \/ \E tifs \in TifBatches : RunInference(tifs)
  \/ Validate(FALSE)

SpecPipeline == InitPipeline /\ [][NextPipeline]_vars

\* remap_alert_level on its own, over ConfDomain
InitRemap ==
  /\ today = 1
  /\ lastRun = NoRun
  /\ runs = 0
  /\ rawSame = FALSE
  /\ rawBatch = <<>>
  /\ lastBatch = <<>>
  /\ rerun = NoRerun
  /\ emitted = {}
  /\ scan = NoScan
  /\ proc = NoProcs
  /\ rawFile = FileAbsent
  /\ historyFile = FileAbsent
  /\ arg \in ConfDomain
  /\ res = <<>>

Remap ==
  /\ res = <<>>
  /\ res' = remap_alert_level(arg)
  /\ UNCHANGED <<rawFile, historyFile, today, lastRun, runs, rawSame, rawBatch,
                 lastBatch, rerun, emitted, scan, proc, arg>>

NextRemap == Remap

SpecRemap == InitRemap /\ [][NextRemap]_vars

\* ------------------------------------------------------------------ claims
\* a step that is one validator run
IsRun == runs' = runs + 1

\* the features of a file, in order, that clean_feature accepts
ValidAt(file, k) == Cleaned[file.feats[k]].status = "ok"

KeyAt(file, k) == CleanKey(Cleaned[file.feats[k]].feat)

NumValid(file) == Cardinality({k \in 1..Len(file.feats) : ValidAt(file, k)})

\* the (tile_id, date) pairs of the stored features are pairwise distinct
UniqueKeys(file) ==
  \A j, k \in 1..Len(file.feats) :
    j # k => StoredKey(file.feats[j]) # StoredKey(file.feats[k])

IsPrefix(s, t) == Len(s) <= Len(t) /\ SubSeq(t, 1, Len(s)) = s

\* record k of the input is valid and its key is in `keys` or is the key of
\* an earlier valid record of the same input
IsDuplicate(file, keys, k) ==
  /\ ValidAt(file, k)
  /\ \/ KeyAt(file, k) \in keys
     \/ \E j \in 1..(k - 1) : ValidAt(file, j) /\ KeyAt(file, j) = KeyAt(file, k)

\* the cleaned records of the input that are valid and no duplicate, in
\* input order
Fresh(file, keys) ==
  LET idx == SelectSeq([k \in 1..Len(file.feats) |-> k],
                       LAMBDA k : ValidAt(file, k) /\ ~IsDuplicate(file, keys, k))
  IN [n \in 1..Len(idx) |-> Cleaned[file.feats[idx[n]]].feat]

\* the alert level the 0.8 / 0.5 thresholds give a stored confidence
Classify(c) ==
  IF c > 80000 THEN S_HIGH ELSE IF c > 50000 THEN S_MEDIUM ELSE S_LOW

\* C1: merge idempotence.  A validator run in append mode whose input file
\* is the one the previous append run read (and persisted a history from)
\* leaves the history file as it was, adds no record and counts every valid
\* record of the input as a duplicate.
C1_MergeIdempotent ==
  [][(IsRun /\ lastRun'.mode = "append" /\ rerun'.same)
       => /\ historyFile' = historyFile
          /\ lastRun'.written
               => /\ lastRun'.added = 0
                  /\ lastRun'.dupes = NumValid(rawFile)]_vars

\* a second append run over the same two-or-more valid records has happened
C1_Witness ==
  /\ rerun.same
  /\ lastRun.mode = "append"
  /\ lastRun.status = "ok"
  /\ lastRun.added = 0
  /\ lastRun.dupes >= 2
  /\ Len(historyFile.feats) >= 2

\* C2: full-pipeline idempotence.  Scanning the same .tif batch again,
\* on whatever day, and validating in append mode adds no record and
\* leaves the history as the first application left it.
C2_PipelineIdempotent ==
  [][(IsRun /\ lastRun'.mode = "append" /\ rerun'.batch /\ lastRun'.written)
       => /\ lastRun'.added = 0
          /\ historyFile' = historyFile]_vars

\* C3 as claimed: after any run that persisted the history, from whatever
\* readable file it started, no two entries share a (tile_id, date) pair.
C3_UniqueFromAnyHistory ==
  lastRun.written => UniqueKeys(historyFile)

\* C3 amended: a run preserves uniqueness.  When the history a run starts
\* from has no two entries with the same pair, or the run is an overwrite,
\* the history it persists has none either.
C3_UniquenessPreserved ==
  [][(IsRun /\ lastRun'.written /\ (lastRun'.mode = "overwrite" \/ UniqueKeys(historyFile)))
       => UniqueKeys(historyFile')]_vars

\* a run that appended one record and dropped another as a duplicate, the
\* persisted history holding several entries with distinct keys
C3_Witness ==
  /\ lastRun.written
  /\ lastRun.added >= 1
  /\ lastRun.dupes >= 1
  /\ Len(historyFile.feats) >= 2
  /\ UniqueKeys(historyFile)

\* C4: alert consistency at rest.  Every entry a run appended to the
\* persisted history carries the alert level that the thresholds give its
\* stored (rounded) confidence.
C4_AlertConsistent ==
  lastRun.written =>
    \A k \in (Len(historyFile.feats) - lastRun.added + 1)..Len(historyFile.feats) :
      historyFile.feats[k].props.f["alert_level"]
        = JStr(Classify(historyFile.feats[k].props.f["confidence"].n))

\* C5: remap_alert_level(c) is HIGH exactly when c > 0.8, MEDIUM exactly
\* when 0.5 < c <= 0.8 and LOW exactly when c <= 0.5; 0.81 gives HIGH, 0.80
\* MEDIUM, 0.51 MEDIUM and 0.5 LOW.
C5_RemapThresholds ==
  res # <<>> =>
    /\ (res = S_HIGH) <=> (arg > 80000)
    /\ (res = S_MEDIUM) <=> (50000 < arg /\ arg <= 80000)
    /\ (res = S_LOW) <=> (arg <= 50000)
    /\ arg = 81000 => res = S_HIGH
    /\ arg = 80000 => res = S_MEDIUM
    /\ arg = 51000 => res = S_MEDIUM
    /\ arg = 50000 => res = S_LOW

\* remap_alert_level has been applied to exactly 0.80
C5_Witness == arg = 80000 /\ res = S_MEDIUM

\* C6: the date on a scanned detection does not depend on the day of the
\* scan: all detections ever emitted for one tile carry the same date.
C6_DateIndependentOfScanDay ==
  \A x, y \in emitted : x[1] = y[1] => x[2] = y[2]

\* the keys of the history a run in mode lastRun'.mode merges into
MergeKeys ==
  IF lastRun'.load = "ok"
    THEN {StoredKey(historyFile.feats[k]) : k \in 1..Len(historyFile.feats)}
    ELSE {}

\* C7: dedup counting.  In a run that read its history, a valid record is
\* counted as a duplicate and not appended exactly when its key is in the
\* existing history or belongs to an earlier valid record of the batch; the
\* others are appended in input order.  With the key of both records of a
\* two-record batch already in the history, 0 are added and 2 are duplicates.
C7_DedupCounting ==
  [][(IsRun /\ lastRun'.written /\ lastRun'.mode = "append" /\ lastRun'.load = "ok")
       => /\ lastRun'.dupes
               = Cardinality({k \in 1..Len(rawFile.feats) : IsDuplicate(rawFile, MergeKeys, k)})
          /\ historyFile'.feats = historyFile.feats \o Fresh(rawFile, MergeKeys)
          /\ lastRun'.added = Len(Fresh(rawFile, MergeKeys))
          /\ (/\ Len(rawFile.feats) = 2
              /\ ValidAt(rawFile, 1) /\ ValidAt(rawFile, 2)
              /\ KeyAt(rawFile, 1) = KeyAt(rawFile, 2)
              /\ KeyAt(rawFile, 1) \in MergeKeys)
               => lastRun'.added = 0 /\ lastRun'.dupes = 2]_vars

\* the first append run over a history holding key K and a batch of two
\* valid records with key K: nothing added, two duplicates
C7_Witness ==
  /\ runs = 1
  /\ rawSame
  /\ lastRun.mode = "append"
  /\ lastRun.load = "ok"
  /\ lastRun.status = "ok"
  /\ Len(rawFile.feats) = 2
  /\ lastRun.added = 0
  /\ lastRun.dupes = 2
  /\ historyFile.feats = <<sStale>>

\* C8 as claimed: an append run never removes, reorders or alters entries;
\* the feature list before the run is a prefix of the one after it.
C8_AppendOnly ==
  [][(IsRun /\ lastRun'.mode = "append")
       => IsPrefix(historyFile.feats, historyFile'.feats)]_vars

\* C8 amended: an append run whose load_existing read the history (the
\* file is absent, or an object whose features all have a properties
\* object) keeps the previous feature list as a prefix of the new one; an
\* append run that found the file unreadable persists the incoming records
\* alone.
C8_AppendOnlyWhenReadable ==
  [][(IsRun /\ lastRun'.mode = "append")
       => /\ lastRun'.load = "ok" => IsPrefix(historyFile.feats, historyFile'.feats)
          /\ (lastRun'.load = "warn" /\ lastRun'.written)
               => Len(historyFile'.feats) = lastRun'.added]_vars

\* an append run that read a non-empty history and appended to it
C8_Witness ==
  /\ lastRun.mode = "append"
  /\ lastRun.load = "ok"
  /\ lastRun.added >= 1
  /\ Len(historyFile.feats) > lastRun.added
  /\ historyFile.feats[1] = sStale

\* C9: overwrite mode.  An overwrite run never loads the previous history,
\* and what it persists is exactly the valid incoming records, first
\* occurrence per key, in input order.
C9_OverwriteReplaces ==
  [][(IsRun /\ lastRun'.mode = "overwrite")
       => /\ lastRun'.load \in {"none", "skipped"}
          /\ lastRun'.at # "load_existing"
          /\ lastRun'.written
               => /\ historyFile' = FileObj(Fresh(rawFile, {}))
                  /\ lastRun'.added = Len(historyFile'.feats)]_vars

\* an overwrite run that kept one record and dropped a later one with the
\* same key
C9_Witness ==
  /\ lastRun.mode = "overwrite"
  /\ lastRun.written
  /\ lastRun.added >= 1
  /\ lastRun.dupes >= 1
  /\ Len(historyFile.feats) = lastRun.added

\* C10: a corrupt existing history is never fatal: load_existing does not
\* let an exception escape, whatever the history file holds.
C10_CorruptHistoryNotFatal ==
  lastRun.load # "raise"

\* ------------------------------------------------- clean_feature on its own
S_Feb30 == <<"2", "0", "2", "5", "-", "0", "2", "-", "3", "0">>

\* properties is JSON null
fNullProps == [geom |-> GeomPoint(-200000, 600000), props |-> PropsNull]

\* no "properties" member at all
fNoProps == [geom |-> GeomPoint(-200000, 600000), props |-> PropsAbsent]

\* geometry is JSON null
fNullGeom == [fHigh EXCEPT !.geom = GeomNull]

\* no "geometry" member at all
fNoGeom == [fHigh EXCEPT !.geom = GeomAbsent]

\* area_ha is not a number
fBadArea == [fHigh EXCEPT !.props.f.area_ha = JStr(S_abc)]

\* confidence is JSON null
fNullConf == [fHigh EXCEPT !.props.f.confidence = JNull]

\* the date is no calendar day
fBadDate == [fHigh EXCEPT !.props.f.date = JStr(S_Feb30)]

\* confidence 1.5 and -0.2: numbers outside [0, 1]
fOver == [fHigh EXCEPT !.props.f.confidence = JNum(150000)]

fUnder == [fHigh EXCEPT !.props.f.confidence = JNum(-20000)]

\* features that fail more than one check
fNoAreaNoGeomBadDate ==
  [fHigh EXCEPT !.props.f.area_ha = JAbsent, !.geom = GeomAbsent,
                !.props.f.date = JStr(S_Feb30)]

fNoGeomBadDate == [fHigh EXCEPT !.geom = GeomAbsent, !.props.f.date = JStr(S_Feb30)]

fNullGeomBadDate == [fHigh EXCEPT !.geom = GeomNull, !.props.f.date = JStr(S_Feb30)]

fBadDateBadConf ==
  [fHigh EXCEPT !.props.f.date = JStr(S_Feb30), !.props.f.confidence = JStr(S_abc)]

\* the values an upstream alert_level member can hold when it is present
UpstreamAlerts ==
  {JStr(S_HIGH), JStr(S_MEDIUM), JStr(S_LOW), JStr(S_abc), JNull, JInt(5)}

WithAlert(f, a) == [f EXCEPT !.props.f.alert_level = a]

\* the raw features clean_feature is tried on
CleanDomain ==
  {fNullProps, fNoProps}
    \cup {WithAlert(f, a) :
            f \in RawFeatures \cup {fNullGeom, fNoGeom, fBadArea, fNullConf,
                                    fBadDate, fOver, fUnder, fNoAreaNoGeomBadDate,
                                    fNoGeomBadDate, fNullGeomBadDate, fBadDateBadConf},
            a \in UpstreamAlerts}

\* every variable of the pipeline at rest; arg and res are left to the caller
InitAtRest ==
  /\ today = 1
  /\ lastRun = NoRun
  /\ runs = 0
  /\ rawSame = FALSE
  /\ rawBatch = <<>>
  /\ lastBatch = <<>>
  /\ rerun = NoRerun
  /\ emitted = {}
  /\ scan = NoScan
  /\ proc = NoProcs
  /\ rawFile = FileAbsent
  /\ historyFile = FileAbsent

InitClean ==
  /\ InitAtRest
  /\ arg \in CleanDomain
  /\ res = <<>>

\* result, reason = clean_feature(feat, i)
Clean ==
  /\ res = <<>>
  /\ res' = clean_feature(arg)
  /\ UNCHANGED <<rawFile, historyFile, today, lastRun, runs, rawSame, rawBatch,
                 lastBatch, rerun, emitted, scan, proc, arg>>

NextClean == Clean

SpecClean == InitClean /\ [][NextClean]_vars

\* C11: schema errors are never fatal.  Whatever is missing or malformed in
\* a raw feature (missing fields, non-numeric confidence or area_ha, null
\* properties or geometry, bad date), clean_feature returns a rejection and
\* does not raise.
C11_SchemaErrorsRejected ==
  res # <<>> => res.status # "raise"

\* C12: the alert_level of clean_feature's output is a function of the
\* confidence only.  Replacing the value of the upstream alert_level member
\* of a raw feature by any other value leaves the result of clean_feature,
\* cleaned detection or rejection, the same.
C12_UpstreamAlertIgnored ==
  (res # <<>> /\ arg.props.ty = "obj") =>
    \A a \in UpstreamAlerts : clean_feature(WithAlert(arg, a)) = res

\* a feature of confidence 0.81 that came in labelled LOW was cleaned to HIGH
C12_Witness ==
  /\ arg = fHigh
  /\ res # <<>>
  /\ res.status = "ok"
  /\ res.feat.props.f["alert_level"] = JStr(S_HIGH)

\* C13: every detection clean_feature accepts has a confidence in [0, 1].
C13_ConfidenceInUnitInterval ==
  (res # <<>> /\ res.status = "ok") =>
    /\ res.feat.props.f["confidence"].n >= 0
    /\ res.feat.props.f["confidence"].n <= Scale

\* ------------------------------------------------------ the demo generator
\* detections in one generated file (num_detections = 45 in main)
MaxDemo == 2

S_S2A_TILE == <<"S", "2", "A", "_", "T", "I", "L", "E", "_">>

S_Obuasi == <<"O", "b", "u", "a", "s", "i">>

\* generate_demo_data.py lines 78-83
demo_alert_level(confidence) ==
  IF confidence >= 85000 THEN S_HIGH
  ELSE IF confidence >= 70000 THEN S_MEDIUM
  ELSE S_LOW

\* date.strftime('%Y%m%d') on day number d of January 2025
CompactDateOfDay(d) ==
  <<"2", "0", "2", "5", "0", "1">>
    \o (IF d < 10 THEN <<"0">> \o NatToStr(d) ELSE NatToStr(d))

\* generate_detection, lines 54-103, for one outcome of its random draws:
\* draw is [confidence, area, day, serial]
generate_detection(draw) ==
  [geom |-> GeomPoint(-167000, 619000),
   props |-> PropsObj(
     [confidence |-> JNum(PyRound(draw.confidence, 100)),
      district |-> JStr(S_Obuasi),
      region |-> JStr(S_AshantiRegion),
      date |-> JStr(DateOfDay(draw.day)),
      area_ha |-> JNum(draw.area),
      tile_id |-> JStr(S_S2A_TILE \o CompactDateOfDay(draw.day)
                         \o <<"_">> \o NatToStr(draw.serial)),
      alert_level |-> JStr(demo_alert_level(draw.confidence))])]

\* generate_demo_data, lines 106-182: the feature collection
generate_demo_data(draws) ==
  FileObj([k \in 1..Len(draws) |-> generate_detection(draws[k])])

\* outcomes of the random draws: a medium-bias and a high-bias detection
DemoDraws ==
  {[confidence |-> 82030, area |-> 100000, day |-> 1, serial |-> 123456],
   [confidence |-> 90010, area |-> 200000, day |-> 2, serial |-> 654321]}

DemoFiles ==
  {generate_demo_data(ds) : ds \in SeqsUpTo(DemoDraws, MaxDemo) \ {<<>>}}

\* python generate_demo_data.py: main() calls save_demo_data(geojson) with
\* the default filepath, data/geojson/latest_detections.geojson
SaveDemoData(file) ==
  /\ historyFile' = file
  /\ UNCHANGED <<rawFile, today, lastRun, runs, rawSame, rawBatch, lastBatch,
                 rerun, emitted, scan, proc, arg, res>>

\* every program of the repository that touches the history file
InitCatalog ==
  /\ InitCommon
  /\ rawFile = FileAbsent
  /\ historyFile \in {FileAbsent, FileObj(<<sStale>>)}

NextCatalog ==
  \/ \E file \in RawFiles : WriteRaw(file)
  \/ \E overwrite \in BOOLEAN : Validate(overwrite)
  \/ \E file \in DemoFiles : SaveDemoData(file)

SpecCatalog == InitCatalog /\ [][NextCatalog]_vars

\* C14: single writer.  The history file changes only in a step that is a
\* run of validate_and_clean; no other program of the repository writes it.
C14_SingleWriter ==
  [][historyFile' # historyFile => IsRun]_vars

\* --------------------------------------- the places that derive an alert
\* config.py lines 26-30
CONFIDENCE_THRESHOLDS == [HIGH |-> 85000, MEDIUM |-> 70000, LOW |-> 0]

\* utils.py lines 84-91
get_alert_level(confidence) ==
  IF confidence >= CONFIDENCE_THRESHOLDS.HIGH THEN S_HIGH
  ELSE IF confidence >= CONFIDENCE_THRESHOLDS.MEDIUM THEN S_MEDIUM
  ELSE S_LOW

\* streamlit_app.py lines 222-231, create_map with language = 'en'
create_map_alert(confidence) ==
  IF confidence >= 85000 THEN S_HIGH
  ELSE IF confidence >= 70000 THEN S_MEDIUM
  ELSE S_LOW

\* the confidences the five mappings are tried on
AlertDomain ==
  ConfDomain \cup {69999, 70000, 70001, 82000, 84999, 85000, 85001}

InitAlert ==
  /\ InitAtRest
  /\ arg \in AlertDomain
  /\ res = <<>>

\* one call of the mapping at `site`, giving `level`
AlertAt(site, level) ==
  /\ res = <<>>
  /\ res' = [site |-> site, level |-> level]
  /\ UNCHANGED <<rawFile, historyFile, today, lastRun, runs, rawSame, rawBatch,
                 lastBatch, rerun, emitted, scan, proc, arg>>

ValidatorAlert == AlertAt("remap_alert_level", remap_alert_level(arg))

ScannerAlert == AlertAt("process_shard", inline_alert(arg))

UtilsAlert == AlertAt("get_alert_level", get_alert_level(arg))

DashboardAlert == AlertAt("create_map", create_map_alert(arg))

DemoAlert == AlertAt("generate_detection", demo_alert_level(arg))

NextAlert ==
  \/ ValidatorAlert
  \/ ScannerAlert
  \/ UtilsAlert
  \/ DashboardAlert
  \/ DemoAlert

SpecAlert == InitAlert /\ [][NextAlert]_vars

\* C18: one threshold table.  Each of the five mappings from a confidence
\* to an alert level (validator, scanner, utils, dashboard map, demo
\* generator) returns what classify returns: HIGH above 0.8, MEDIUM above
\* 0.5, LOW otherwise.
C18_OneThresholdTable ==
  res # <<>> => res.level = Classify(arg)

\* line 249: sys.exit(0 if validate_and_clean(...) else 1); an exception
\* that escapes ends the interpreter with status 1
exit_code(run) == IF run.status = "ok" THEN 0 ELSE 1

\* the input is a JSON object none of whose features makes clean_feature
\* raise
WellFormedInput(file) ==
  /\ file.kind = "obj"
  /\ \A k \in 1..Len(file.feats) : Cleaned[file.feats[k]].status # "raise"

\* C16: exit status of the validator.  It exits 0 whenever the input file
\* is readable and well-formed, non-zero when the input file is missing or
\* not valid JSON, and a run that exits non-zero leaves the history file
\* as it was.
C16_ExitStatus ==
  [][IsRun
       => /\ WellFormedInput(rawFile) => exit_code(lastRun') = 0
          /\ rawFile.kind \in {"absent", "badjson"} => exit_code(lastRun') # 0
          /\ exit_code(lastRun') # 0 => historyFile' = historyFile]_vars

\* C17: no silent drops.  In every run over a feature collection, each
\* incoming feature is appended, counted as a duplicate or reported as
\* skipped: added + duplicates + skipped is the number of incoming
\* features.  A feature without area_ha is reported with a reason naming
\* area_ha and is not in the persisted history.
C17_NoSilentDrops ==
  [][(IsRun /\ rawFile.kind = "obj")
       => /\ lastRun'.added + lastRun'.dupes + Len(lastRun'.skipped)
               = Len(rawFile.feats)
          /\ \A k \in 1..Len(rawFile.feats) :
               rawFile.feats[k] = fNoArea
                 => /\ \E n \in 1..Len(lastRun'.skipped) :
                         /\ lastRun'.skipped[n][1] = k - 1
                         /\ lastRun'.skipped[n][2].kind = "missing"
                         /\ \E m \in 1..Len(lastRun'.skipped[n][2].fields) :
                              lastRun'.skipped[n][2].fields[m] = "area_ha"
                    /\ \A n \in 1..Len(historyFile'.feats) :
                         historyFile'.feats[n].props.f["area_ha"].ty # "absent"]_vars

\* ------------------------------------------------- process_shard on its own
\* heights and widths in pixels: below, at and above one, two and three
\* windows
RasterSizes == {0, 1, 223, 224, 225, 230, 447, 448, 449, 672}

\* a readable H x W raster on which the classifier returns 0.9 everywhere
UniformRaster(H, W) ==
  [name |-> S_tileA, readable |-> TRUE, H |-> H, W |-> W, transform |-> NorthUp,
   win |-> [c \in {<<a * STRIDE, b * STRIDE>> :
                     a \in 0..(H \div STRIDE), b \in 0..(W \div STRIDE)}
              |-> Window(90000, S_Unknown, S_Unknown)]]

InitWindows ==
  /\ InitAtRest
  /\ arg \in {UniformRaster(H, W) : H \in RasterSizes, W \in RasterSizes}
  /\ res = <<>>

\* process_shard(model, tif_path) on the raster arg
ScanShard ==
  /\ res = <<>>
  /\ res' = [windows |-> shard_windows(arg),
             features |-> process_shard(arg, today).features]
  /\ UNCHANGED <<rawFile, historyFile, today, lastRun, runs, rawSame, rawBatch,
                 lastBatch, rerun, emitted, scan, proc, arg>>

NextWindows == ScanShard

SpecWindows == InitWindows /\ [][NextWindows]_vars

\* the corners (i, j), multiples of STRIDE, of the windows that fit
FittingCorners(H, W) ==
  {c \in {<<a * STRIDE, b * STRIDE>> :
            a \in 0..(H \div STRIDE), b \in 0..(W \div STRIDE)} :
     c[1] + MODEL_SIZE <= H /\ c[2] + MODEL_SIZE <= W}

\* C19: geometric truncation.  For an H x W raster process_shard classifies
\* exactly the windows whose corner (i, j) has i and j multiples of STRIDE
\* with i + MODEL_SIZE <= H and j + MODEL_SIZE <= W, each once and each
\* inside the raster; 230 x 230 gives exactly one window, and a raster
\* smaller than the window on either axis gives none.
C19_GeometricTruncation ==
  res # <<>> =>
    LET wins == res.windows
    IN /\ {wins[k] : k \in 1..Len(wins)} = FittingCorners(arg.H, arg.W)
       /\ Len(wins) = Cardinality(FittingCorners(arg.H, arg.W))
       /\ Len(res.features) = Len(wins)
       /\ \A k \in 1..Len(wins) :
            /\ wins[k][1] >= 0 /\ wins[k][1] + MODEL_SIZE <= arg.H
            /\ wins[k][2] >= 0 /\ wins[k][2] + MODEL_SIZE <= arg.W
       /\ (arg.H = 230 /\ arg.W = 230) => wins = <<(<<0, 0>>)>>
       /\ (arg.H < MODEL_SIZE \/ arg.W < MODEL_SIZE) => wins = <<>>

\* the 230 x 230 raster was scanned: one window, one detection
C19_Witness ==
  /\ res # <<>>
  /\ arg.H = 230 /\ arg.W = 230
  /\ Len(res.windows) = 1
  /\ Len(res.features) = 1

\* the features of a file that carry the tile_id `name`, in file order
OfTile(file, name) ==
  SelectSeq(file.feats, LAMBDA ft : ft.props.f["tile_id"] = JStr(name))

\* C20: an unreadable raster does not abort the batch.  After a scan of one
\* or more .tif files the output file has been written; a raster that could
\* not be read contributes no detection to it, and every other raster of
\* the batch contributes exactly the detections it yields when read.
C20_UnreadableSkipped ==
  scan.tifs # <<>> =>
    /\ scan.written
    /\ rawFile.kind = "obj"
    /\ \A r \in Rasters :
         (\E k \in 1..Len(scan.tifs) : scan.tifs[k] = r.name)
           => OfTile(rawFile, r.name)
                = IF r.readable THEN Shards[r, scan.day].features ELSE <<>>

\* a batch of the unreadable raster followed by the 230 x 230 one was
\* scanned and the one detection of the latter is in the output
C20_Witness ==
  /\ scan.tifs = <<S_tileC, S_tileA>>
  /\ scan.written
  /\ Len(rawFile.feats) = 1
  /\ OfTile(rawFile, S_tileA) = rawFile.feats

\* ------------------------------------ two validator runs on one history
\* The other of the two invocations
Other(p) == 3 - p

\* an invocation that has finished, n-th of the two, with result r
Finished(pr, r, n) == [pr EXCEPT !.pc = "done", !.result = r, !.order = n]

\* number of invocations that have finished
NumDone == Cardinality({p \in {1, 2} : proc[p].pc = "done"})

\* lines 155-175 of invocation p in append mode: it reads its input file,
\* a feature collection, and loads the existing history.  When
\* load_existing raises, the run ends here and nothing is written.
Begin(p, file) ==
  /\ proc[p].pc = "idle"
  /\ LET ex == existing_history(historyFile, FALSE)
         pr == [proc[p] EXCEPT !.input = file, !.ex = ex,
                               !.overlapped = (proc[Other(p)].pc = "loaded")]
         failed == [run |-> [NoRun EXCEPT !.mode = "append", !.status = "raised",
                                          !.at = "load_existing", !.load = "raise"],
                    out |-> historyFile]
     IN proc' = [proc EXCEPT ![p] =
                   IF ex.status = "raise"
                     THEN Finished(pr, failed, NumDone + 1)
                     ELSE [pr EXCEPT !.pc = "loaded"]]
  /\ UNCHANGED <<rawFile, historyFile, today, lastRun, runs, rawSame, rawBatch,
                 lastBatch, rerun, emitted, scan, arg, res>>

\* lines 176-239 of invocation p: the loop over its input, the write of the
\* history it loaded plus its own records, the summary
Finish(p) ==
  /\ proc[p].pc = "loaded"
  /\ LET r == validate_with_history(proc[p].input, historyFile, FALSE, proc[p].ex)
     IN /\ historyFile' = r.out
        /\ proc' = [proc EXCEPT ![p] = Finished(proc[p], r, NumDone + 1)]
  /\ UNCHANGED <<rawFile, today, lastRun, runs, rawSame, rawBatch, lastBatch,
                 rerun, emitted, scan, arg, res>>

InitConcurrent ==
  /\ InitCommon
  /\ rawFile = FileAbsent
  /\ historyFile \in {FileAbsent, FileObj(<<sStale>>)}

\* the input files of the two invocations: feature collections
ConcurrentInputs == {file \in RawFiles : file.kind = "obj"}

NextConcurrent ==
  \/ \E p \in {1, 2} : \E file \in ConcurrentInputs : Begin(p, file)
  \/ \E p \in {1, 2} : Finish(p)

SpecConcurrent == InitConcurrent /\ [][NextConcurrent]_vars

\* the records invocation p appended to the history it had loaded
Added(p) ==
  LET r == proc[p].result
  IN IF r.run.written
       THEN SubSeq(r.out.feats, Len(proc[p].ex.feats) + 1, Len(r.out.feats))
       ELSE <<>>

\* the features of the sequence s are all in the history file
AllStored(s) ==
  \A k \in 1..Len(s) : \E n \in 1..Len(historyFile.feats) : historyFile.feats[n] = s[k]

NextFlush ==
  \/ Tick
  \/ \E tifs \in FlushBatches : RunInference(tifs)
  \/ Validate(FALSE)

SpecFlush == InitPipeline /\ [][NextFlush]_vars

RasterNamed(name) == CHOOSE r \in AllRasters : r.name = name

\* the raster at position k of the last scan was processed to its end
Completed(k) ==
  \A j \in 1..k : ~Shards[RasterNamed(scan.tifs[j]), scan.day].raised

\* C21: partial results are flushed.  When a scan was aborted by a failure
\* of the classifier on a later raster, the detections of every raster
\* that had been completed before are in the raw output file.
C21_PartialResultsFlushed ==
  (scan.tifs # <<>> /\ ~scan.written) =>
    \A k \in 1..Len(scan.tifs) :
      Completed(k) =>
        OfTile(rawFile, scan.tifs[k])
          = Shards[RasterNamed(scan.tifs[k]), scan.day].features

\* the three checks of the validation contract, on the raw feature
FailsFields(f) ==
  f.props.ty # "obj" \/ \E k \in 1..Len(REQUIRED_FIELDS) : f.props.f[REQUIRED_FIELDS[k]].ty = "absent"

FailsGeometry(f) == f.geom.ty # "obj" \/ Len(f.geom.coords) < 2

FailsDate(f) == ~validate_date(PyStrip(PyStr(f.props.f["date"])))

\* C22: the checks run in the order required fields, geometry, date.  A
\* feature is rejected with the reason of the first check it fails in that
\* order, and a feature that passes all three is not rejected.
C22_CheckOrder ==
  res # <<>> =>
    /\ FailsFields(arg) => (res.status = "reject" /\ res.reason.kind = "missing")
    /\ (~FailsFields(arg) /\ FailsGeometry(arg))
         => (res.status = "reject" /\ res.reason.kind = "coords")
    /\ (~FailsFields(arg) /\ ~FailsGeometry(arg) /\ FailsDate(arg))
         => (res.status = "reject" /\ res.reason.kind = "date")
    /\ (~FailsFields(arg) /\ ~FailsGeometry(arg) /\ ~FailsDate(arg))
         => res.status # "reject"

\* C30: validation is idempotent.  When clean_feature accepts a raw feature
\* with result g, clean_feature accepts g and returns g.
C30_CleanIdempotent ==
  (res # <<>> /\ res.status = "ok") =>
    clean_feature(res.feat) = [status |-> "ok", feat |-> res.feat, reason |-> NoReason]

\* ------------------------------------------ title_case_district on its own
\* length of the generated district strings
MaxDistrictLen == 3

S_tarkwa_upper == <<"T", "A", "R", "K", "W", "A", "-", "N", "S", "U", "A", "E", "M">>

S_TarkwaNsuaem == <<"T", "a", "r", "k", "w", "a", "-", "N", "s", "u", "a", "e", "m">>

S_presteaHuniValley == <<"p", "r", "e", "s", "t", "e", "a", "-", "h", "u", "n", "i", " ", "v", "a", "l", "l", "e", "y">>

\* the district strings title_case_district is tried on: every string over
\* a lower-case letter, an upper-case letter and both delimiters, and names
DistrictDomain ==
  SeqsUpTo({"a", "B", "-", " "}, MaxDistrictLen)
    \cup {S_tarkwa, S_tarkwa_upper, S_TarkwaNsuaem, S_presteaHuniValley,
          S_ObuasiMunicipal, S_Unknown}

InitDistrict ==
  /\ InitAtRest
  /\ arg \in DistrictDomain
  /\ res = <<>>

\* district_fixed = title_case_district(district)
TitleCase ==
  /\ res = <<>>
  /\ res' = [out |-> title_case_district(arg)]
  /\ UNCHANGED <<rawFile, historyFile, today, lastRun, runs, rawSame, rawBatch,
                 lastBatch, rerun, emitted, scan, proc, arg>>

NextDistrict == TitleCase

SpecDistrict == InitDistrict /\ [][NextDistrict]_vars

\* title case as claimed: a character that starts a token (it is the first
\* of the string or follows a hyphen or a space) is upper-cased, every other
\* character is lower-cased; the delimiters stay where they are
TitleCased(s) ==
  [k \in 1..Len(s) |->
     IF k = 1 \/ s[k - 1] \in {"-", " "} THEN UpperChar(s[k]) ELSE LowerChar(s[k])]

\* C23: district normalization.  title_case_district turns every district
\* string into its title case, token by token, delimiters preserved;
\* "tarkwa-nsuaem" becomes "Tarkwa-Nsuaem".
C23_TitleCasePerToken ==
  res # <<>> =>
    /\ res.out = TitleCased(arg)
    /\ arg = S_tarkwa => res.out = S_TarkwaNsuaem

\* ------------------------------------------- region normalization on its own
\* config.py lines 10-23: region, then its districts
REGIONS ==
  <<
    <<S_WesternRegion, <<<<"T", "a", "r", "k", "w", "a", "-", "N", "s", "u", "a", "e", "m">>,
                        <<"P", "r", "e", "s", "t", "e", "a", "-", "H", "u", "n", "i", " ", "V", "a", "l", "l", "e", "y">>,
                        <<"W", "a", "s", "s", "a", " ", "E", "a", "s", "t">>,
                        <<"B", "i", "b", "i", "a", "n", "i", "-", "A", "n", "h", "w", "i", "a", "s", "o", "-", "B", "e", "k", "w", "a", "i">>>>>>,
    <<S_AshantiRegion, <<<<"O", "b", "u", "a", "s", "i">>,
                        <<"A", "m", "a", "n", "s", "i", "e", " ", "C", "e", "n", "t", "r", "a", "l">>,
                        <<"A", "m", "a", "n", "s", "i", "e", " ", "W", "e", "s", "t">>,
                        <<"A", "d", "a", "n", "s", "i", " ", "S", "o", "u", "t", "h">>>>>>,
    <<S_EasternRegion, <<<<"A", "t", "i", "w", "a", " ", "W", "e", "s", "t">>,
                        <<"B", "i", "r", "i", "m", " ", "N", "o", "r", "t", "h">>,
                        <<"D", "e", "n", "k", "y", "e", "m", "b", "o", "u", "r">>,
                        <<"W", "e", "s", "t", " ", "A", "k", "i", "m">>>>>>
  >>

\* every district config.REGIONS lists
ConfigDistricts ==
  UNION {{REGIONS[r][2][k] : k \in 1..Len(REGIONS[r][2])} : r \in 1..Len(REGIONS)}

\* the region config.REGIONS lists the district under
ConfigRegion(district) ==
  REGIONS[CHOOSE r \in 1..Len(REGIONS) :
            \E k \in 1..Len(REGIONS[r][2]) : REGIONS[r][2][k] = district][1]

S_RegionalZone == <<"R", "e", "g", "i", "o", "n", "a", "l", " ", "Z", "o", "n", "e">>

S_WesternPadded == <<" ", "W", "e", "s", "t", "e", "r", "n", " ">>

S_unknown_lower == <<"u", "n", "k", "n", "o", "w", "n">>

S_Blank == <<" ", " ">>

S_obuasi_lower == <<"o", "b", "u", "a", "s", "i", " ", "m", "u", "n", "i", "c", "i", "p", "a", "l">>

S_KWABRE_east == <<"K", "W", "A", "B", "R", "E", " ", "e", "a", "s", "t">>

S_CapeCoastMetro == <<"C", "a", "p", "e", " ", "C", "o", "a", "s", "t", " ", "M", "e", "t", "r", "o">>

S_Accra == <<"A", "c", "c", "r", "a">>

\* the raw region and district values the normalization is tried on
RegionDomain ==
  {S_Empty, S_Blank, S_Unknown, S_UnknownRegion, S_unknown_lower, S_Ashanti,
   S_AshantiRegion, S_WesternPadded, S_Region, S_RegionalZone}

DistrictNames ==
  ConfigDistricts
    \cup {S_ObuasiMunicipal, S_obuasi_lower, S_KWABRE_east, S_CapeCoastMetro,
          S_Accra, S_Unknown, S_Empty}

InitRegion ==
  /\ InitAtRest
  /\ arg \in [region : RegionDomain, district : DistrictNames]
  /\ res = <<>>

\* lines 111-112 and 122-129 of clean_feature: strip both values, title-case
\* the district, then suffix and fallback; and fallback_region on its own
NormalizeRegion ==
  /\ res = <<>>
  /\ res' = [region |-> normalize_region(PyStrip(arg.region),
                                         title_case_district(PyStrip(arg.district))),
             fallback |-> fallback_region(arg.district)]
  /\ UNCHANGED <<rawFile, historyFile, today, lastRun, runs, rawSame, rawBatch,
                 lastBatch, rerun, emitted, scan, proc, arg>>

NextRegion == NormalizeRegion

SpecRegion == InitRegion /\ [][NextRegion]_vars

EndsWith(s, suffix) ==
  Len(s) >= Len(suffix) /\ SubSeq(s, Len(s) - Len(suffix) + 1, Len(s)) = suffix

\* C24: region normalization.  A region that is non-empty, not "Unknown"
\* and does not end with "Region" gets " Region" appended; a region that
\* ends with "Region" (other than "Unknown Region", which falls back) is
\* left unchanged.
C24_RegionSuffix ==
  res # <<>> =>
    LET r == PyStrip(arg.region)
    IN /\ (r # S_Empty /\ r # S_Unknown /\ ~EndsWith(r, S_Region))
            => res.region = r \o S_SpRegion
       /\ (EndsWith(r, S_Region) /\ r # S_UnknownRegion) => res.region = r

\* entry k of DISTRICT_TO_REGION matches the district, case-insensitively
KeyMatches(k, district) ==
  PyContains(PyLower(DISTRICT_TO_REGION[k][1]), PyLower(district))

\* C25: region fallback.  When the region is empty, "Unknown" or "Unknown
\* Region", the output region is the value of the first entry of
\* DISTRICT_TO_REGION, in table order, whose key is a case-insensitive
\* substring of the district, and "Unknown Region" when no key matches;
\* for any other region the output is the region itself, with or without
\* the suffix, whatever the district.  "" with "Obuasi Municipal" gives
\* "Ashanti Region".
C25_RegionFallback ==
  res # <<>> =>
    LET r == PyStrip(arg.region)
        d == PyStrip(arg.district)
        n == Len(DISTRICT_TO_REGION)
    IN /\ r \in {S_Empty, S_Unknown, S_UnknownRegion}
            => \/ /\ \A k \in 1..n : ~KeyMatches(k, d)
                  /\ res.region = S_UnknownRegion
               \/ \E k \in 1..n :
                    /\ KeyMatches(k, d)
                    /\ \A j \in 1..(k - 1) : ~KeyMatches(j, d)
                    /\ res.region = DISTRICT_TO_REGION[k][2]
       /\ r \notin {S_Empty, S_Unknown, S_UnknownRegion}
            => res.region \in {r, r \o S_SpRegion}
       /\ (r = S_Empty /\ d = S_ObuasiMunicipal) => res.region = S_AshantiRegion

\* the empty region of a feature in "Obuasi Municipal" became "Ashanti Region"
C25_Witness ==
  /\ res # <<>>
  /\ arg.region = S_Empty
  /\ arg.district = S_ObuasiMunicipal
  /\ res.region = S_AshantiRegion

\* C29: the fallback table agrees with the region metadata.  For every
\* district config.REGIONS lists under a region, fallback_region(district)
\* returns that region.
C29_FallbackAgreesWithConfig ==
  (res # <<>> /\ arg.district \in ConfigDistricts) =>
    res.fallback = [found |-> TRUE, region |-> ConfigRegion(arg.district)]

\* ------------------------------------------------ the inclusion threshold
\* the probabilities the classifier returns: below, at and above THRESHOLD
ProbDomain ==
  {0, 10000, 29000, THRESHOLD - 1, THRESHOLD, THRESHOLD + 1, 31000, 50000,
   80000, 80001, Scale}

\* a readable 224 x 448 raster: two windows, with probabilities p1 and p2
TwoWindowRaster(p1, p2) ==
  [name |-> S_tileB, readable |-> TRUE, H |-> 224, W |-> 448, transform |-> NorthUp,
   win |-> (<<0, 0>> :> Window(p1, S_Unknown, S_Unknown)
            @@ <<0, 224>> :> Window(p2, S_Unknown, S_Unknown))]

InitThreshold ==
  /\ InitAtRest
  /\ arg \in {TwoWindowRaster(p1, p2) : p1 \in ProbDomain, p2 \in ProbDomain}
  /\ res = <<>>

NextThreshold == ScanShard

SpecThreshold == InitThreshold /\ [][NextThreshold]_vars

\* the corners, in scan order, of the windows whose probability is at least
\* THRESHOLD
Qualifying(raster, wins) ==
  SelectSeq(wins, LAMBDA c : raster.win[c].p >= THRESHOLD)

\* C26: scan-time inclusion.  process_shard emits exactly one raw detection
\* for each classified window whose probability is >= THRESHOLD (0.3, the
\* boundary included), in scan order and at the window's centre, and none
\* for a window below it; nothing is deduplicated, so the number of
\* detections of a raster is its number of qualifying windows.
C26_ScanInclusion ==
  res # <<>> =>
    LET q == Qualifying(arg, res.windows)
    IN /\ Len(res.features) = Len(q)
       /\ \A n \in 1..Len(q) :
            LET pt == Affine(arg.transform, q[n][2] + (MODEL_SIZE \div 2),
                             q[n][1] + (MODEL_SIZE \div 2))
            IN /\ res.features[n].geom = GeomPoint(pt[1], pt[2])
               /\ res.features[n].props.f["confidence"]
                    = JNum(PyRound(arg.win[q[n]].p, 10))

\* both windows sit exactly at the threshold with the same probability, and
\* both were emitted
C26_Witness ==
  /\ res # <<>>
  /\ Len(res.windows) = 2
  /\ \A k \in 1..2 : arg.win[res.windows[k]].p = THRESHOLD
  /\ Len(res.features) = 2

\* ------------------------------------------------------- patch rescaling
\* patch_tensor.max(); a patch is the sequence of its pixel values
PatchMax(patch) ==
  CHOOSE v \in {patch[k] : k \in 1..Len(patch)} :
    \A k \in 1..Len(patch) : patch[k] <= v

\* lines 113-114: if patch_tensor.max() > 1: patch_tensor /= 10000.0
rescale(patch) ==
  IF PatchMax(patch) > Scale
    THEN [k \in 1..Len(patch) |-> patch[k] \div 10000]
    ELSE patch

\* raw pixel values: unit reflectance (-0.5, 0, 0.5, 1) and digital numbers
\* (-1000, 2, 3000, 10000, 10001, 20000), in units of 10^-5
PixelDomain ==
  {-1000 * Scale, -50000, 0, 50000, Scale, 2 * Scale, 3000 * Scale,
   10000 * Scale, 10001 * Scale, 20000 * Scale}

\* the patches the rescaling is tried on: three pixels of one window
PatchDomain == [1..3 -> PixelDomain]

InitRescale ==
  /\ InitAtRest
  /\ arg \in PatchDomain
  /\ res = <<>>

\* lines 110-114 of process_shard: the patch handed to the classifier
Rescale ==
  /\ res = <<>>
  /\ res' = [patch |-> rescale(arg)]
  /\ UNCHANGED <<rawFile, historyFile, today, lastRun, runs, rawSame, rawBatch,
                 lastBatch, rerun, emitted, scan, proc, arg>>

NextRescale == Rescale

SpecRescale == InitRescale /\ [][NextRescale]_vars

\* C27: patch rescaling.  A patch is divided by 10000 exactly when its
\* maximum value exceeds 1, and every patch handed to the classifier has
\* all its values in [0, 1], whatever the raw pixel encoding of the raster.
C27_PatchInUnitRange ==
  res # <<>> =>
    /\ (\E k \in 1..Len(arg) : arg[k] > Scale)
         => \A k \in 1..Len(arg) : res.patch[k] * 10000 = arg[k]
    /\ (\A k \in 1..Len(arg) : arg[k] <= Scale) => res.patch = arg
    /\ \A k \in 1..Len(res.patch) : 0 <= res.patch[k] /\ res.patch[k] <= Scale

\* ------------------------------------------- a scan that crosses midnight
\* the days the clock can show at the windows of a raster, in scan order:
\* it starts at `day` and never goes back
Clocks(raster, day) ==
  {c \in [1..Len(shard_windows(raster)) -> day..MaxDay] :
     \A k \in 1..Len(c) : (k = 1 => c[k] = day) /\ (k > 1 => c[k - 1] <= c[k])}

\* python run_inference.py with the one file `raster` in data/tif_input,
\* the clock showing clock[k] when window k is classified
ScanShardAt(raster, clock) ==
  /\ runs = 0 => rawFile = FileAbsent
  /\ runs > 0 => rawSame
  /\ LET r == process_shard_at(raster, clock)
         raw == IF r.raised THEN rawFile ELSE FileObj(r.features)
     IN /\ rawFile' = raw
        /\ rawSame' = (rawSame /\ raw = rawFile)
        /\ rawBatch' = IF r.raised THEN rawBatch ELSE <<raster.name>>
        /\ emitted' = emitted \cup {CleanKey(r.features[k]) : k \in 1..Len(r.features)}
        /\ scan' = [tifs |-> <<raster.name>>, day |-> today, written |-> ~r.raised]
  /\ today' = IF clock = <<>> THEN today ELSE clock[Len(clock)]
  /\ UNCHANGED <<historyFile, lastRun, runs, lastBatch, rerun, proc, arg, res>>

NextCollapse ==
  \/ \E raster \in Rasters : \E clock \in Clocks(raster, today) :
       ScanShardAt(raster, clock)
  \/ Validate(FALSE)

SpecCollapse == InitPipeline /\ [][NextCollapse]_vars

\* C28: per-tile collapse.  A raster with k >= 2 qualifying windows
\* contributes at most one detection to the persisted history when the
\* validator runs on its scan, namely the first in scan order, and the
\* other k - 1 are counted as duplicates.
C28_PerTileCollapse ==
  [][(IsRun /\ rawBatch # <<>> /\ rawFile.kind = "obj")
       => \A name \in {rawBatch[n] : n \in 1..Len(rawBatch)} :
            LET mine == OfTile(rawFile, name)
                before == OfTile(historyFile, name)
                after == OfTile(historyFile', name)
            IN Len(mine) >= 2
                 => /\ Len(after) - Len(before) <= 1
                    /\ Len(after) - Len(before) = 1
                         => after[Len(after)] = Cleaned[mine[1]].feat
                    /\ lastRun'.dupes >= Len(mine) - 1]_vars

====
